---------------------------- MODULE Spec2Model ----------------------------
(***************************************************************************)
(* Model of the builtin-actors bundle fetcher (BundleFetcher.Fetch, fetch, *)
(* fetchURL and check).  Files are byte sequences; text files hold ASCII   *)
(* codes.  The file system, the directory set and the origin's answers are *)
(* explicit state; each caller of Fetch advances through the statements of *)
(* Fetch one system call at a time, so overlapping calls interleave at the *)
(* granularity of stat / open / read / write / GET.                        *)
(***************************************************************************)
EXTENDS Integers, Sequences, FiniteSets, TLC

(***************************************************************************)
(* Bounds of the model.                                                    *)
(***************************************************************************)
\* bytes moved by one read or write of io.Copy (its buffer, scaled down)
ChunkSize == 2
\* calls of Fetch the caller makes one after the other in sequential use
MaxCalls == 2
\* bytes of a digest (sha256.Size, scaled down)
DigestSize == 1
\* longest bundle among the inputs of check
MaxLen == 3

(***************************************************************************)
(* Byte-level helpers.                                                     *)
(***************************************************************************)
Min(a, b) == IF a < b THEN a ELSE b

RECURSIVE Pow(_, _)
Pow(b, n) == IF n = 0 THEN 1 ELSE b * Pow(b, n - 1)

RECURSIVE Zeros(_)
Zeros(n) == IF n <= 0 THEN <<>> ELSE <<0>> \o Zeros(n - 1)

\* bytes [from+1 .. from+n] of data, short at the end of the data
Slice(data, from, n) ==
    IF from >= Len(data) THEN <<>>
    ELSE SubSeq(data, from + 1, Min(Len(data), from + n))

\* faulty variant: the file is opened with O_APPEND, every write goes to its end
WriteAtEnd(data, off, chunk) == data \o chunk

\* a write(2) of chunk at offset off: overwrites in place, extends the file,
\* and fills a gap between the end of the file and off with zero bytes
WriteAt(data, off, chunk) ==
    LET base == IF off > Len(data) THEN data \o Zeros(off - Len(data)) ELSE data
        keep == Slice(base, off + Len(chunk), Len(base))
    IN  SubSeq(base, 1, off) \o chunk \o keep

(***************************************************************************)
(* encoding/hex.                                                           *)
(***************************************************************************)
\* "0123456789abcdef"
HexTable == <<48, 49, 50, 51, 52, 53, 54, 55, 56, 57, 97, 98, 99, 100, 101, 102>>

RECURSIVE EncodeToString(_)
EncodeToString(bytes) ==
    IF bytes = <<>> THEN <<>>
    ELSE <<HexTable[(Head(bytes) \div 16) + 1], HexTable[(Head(bytes) % 16) + 1]>>
         \o EncodeToString(Tail(bytes))

\* value of one hex digit (either case), -1 for any other byte
FromHexChar(c) ==
    IF c >= 48 /\ c <= 57 THEN c - 48
    ELSE IF c >= 97 /\ c <= 102 THEN c - 97 + 10
    ELSE IF c >= 65 /\ c <= 70 THEN c - 65 + 10
    ELSE -1

RECURSIVE DecodePairs(_)
DecodePairs(s) ==
    IF Len(s) < 2 THEN <<>>
    ELSE <<FromHexChar(s[1]) * 16 + FromHexChar(s[2])>> \o DecodePairs(Tail(Tail(s)))

\* hex.DecodeString: an error for a byte that is no hex digit and for an odd
\* length, otherwise the decoded bytes (the empty string decodes to no bytes)
DecodeString(s) ==
    IF (\E k \in 1..Len(s) : FromHexChar(s[k]) < 0) \/ Len(s) % 2 = 1
    THEN [err |-> TRUE, bytes |-> <<>>]
    ELSE [err |-> FALSE, bytes |-> DecodePairs(s)]

(***************************************************************************)
(* strings.Split(s, " ")[0]: the bytes before the first space (byte 32),   *)
(* the whole string when it holds no space.                                *)
(***************************************************************************)
IsSep(c) == c = 32

RECURSIVE FirstPart(_)
FirstPart(s) ==
    IF s = <<>> \/ IsSep(Head(s)) THEN <<>>
    ELSE <<Head(s)>> \o FirstPart(Tail(s))

(***************************************************************************)
(* crypto/sha256, scaled down to DigestSize bytes: an injective numbering  *)
(* of the contents the model handles (sequences of the bytes 0 and 1 up to *)
(* 7 long), scrambled by an odd multiplier, written big-endian.  Distinct  *)
(* contents have distinct digests, as SHA-256 is taken to behave.          *)
(***************************************************************************)
RECURSIVE ContentCode(_)
ContentCode(data) ==
    IF data = <<>> THEN 1
    ELSE ContentCode(SubSeq(data, 1, Len(data) - 1)) * 2 + (data[Len(data)] % 2)

RECURSIVE BigEndian(_, _)
BigEndian(v, n) ==
    IF n = 0 THEN <<>> ELSE BigEndian(v \div 256, n - 1) \o <<v % 256>>

Sha256(data) ==
    BigEndian((ContentCode(data) * 37 + 11) % Pow(256, DigestSize), DigestSize)

(***************************************************************************)
(* Identities, paths and URLs.                                             *)
(***************************************************************************)
Root == "/tmp/cache"

Mainnet == [version |-> 8, release |-> "v8.0.0", netw |-> "mainnet"]
Calibnet == [version |-> 8, release |-> "v8.0.0", netw |-> "calibnet"]
Ids == {Mainnet, Calibnet}

Callers == {"c1", "c2"}

\* filepath.Join of two clean components
Join(a, b) == a \o "/" \o b

\* BundleFetcher.path, set by NewBundleFetcher
BasePath == Join(Root, "builtin-actors")

\* faulty variant: the file name leaves out the network
BundleNameShared(netw) == "builtin-actors"

BundleName(netw) == "builtin-actors-" \o netw
BundleFile(netw) == BundleName(netw) \o ".car"
BundleHash(netw) == BundleName(netw) \o ".sha256"
\* faulty variant: the version directory is named by the bare number
VersionPathBare(i) == Join(BasePath, ToString(i.version))

VersionPath(i) == Join(BasePath, "v" \o ToString(i.version))
BundleBasePath(i) == Join(VersionPath(i), i.release)
BundleFilePath(i) == Join(BundleBasePath(i), BundleFile(i.netw))
BundleHashPath(i) == Join(BundleBasePath(i), BundleHash(i.netw))

ReleaseUrl(release, file) ==
    "https://github.com/filecoin-project/builtin-actors/releases/download/"
        \o release \o "/" \o file
BundleHashUrl(i) == ReleaseUrl(i.release, BundleHash(i.netw))
BundleFileUrl(i) == ReleaseUrl(i.release, BundleFile(i.netw))

Paths == {BundleFilePath(i) : i \in Ids} \cup {BundleHashPath(i) : i \in Ids}
Urls == {BundleFileUrl(i) : i \in Ids} \cup {BundleHashUrl(i) : i \in Ids}

\* faulty variant: every network's files are downloaded to mainnet's paths
TargetPathMainnet(i, which) ==
    IF which = "hash" THEN BundleHashPath([i EXCEPT !.netw = "mainnet"])
    ELSE BundleFilePath([i EXCEPT !.netw = "mainnet"])

\* faulty variant: the two paths are swapped
TargetPathSwapped(i, which) ==
    IF which = "hash" THEN BundleFilePath(i) ELSE BundleHashPath(i)

\* faulty variant: the bundle is requested first, the digest file second
TargetUrlBundleFirst(i, which) ==
    IF which = "hash" THEN BundleFileUrl(i) ELSE BundleHashUrl(i)

\* the path of the file a download writes, and the URL it reads
TargetPath(i, which) == IF which = "hash" THEN BundleHashPath(i) ELSE BundleFilePath(i)
TargetUrl(i, which) == IF which = "hash" THEN BundleHashUrl(i) ELSE BundleFileUrl(i)

NoPath == ""
NoId == [version |-> 0, release |-> "", netw |-> ""]

(***************************************************************************)
(* State.                                                                  *)
(***************************************************************************)
VARIABLES
    fs,       \* path -> [ex, data]: whether the file exists, and its bytes
    dirs,     \* the directories that exist
    perm,     \* path -> "rw" | "r" (cannot be opened for writing)
              \*       | "w" (cannot be opened for reading)
              \*       | "eio" (opens, but a read of it fails)
    blocked,  \* directories MkdirAll cannot create
    origin,   \* url -> [kind, body, cut]: what a GET of the url answers
    pc,       \* caller -> the statement of Fetch the caller is at
    id,       \* caller -> the (version, release, netw) of its call
    l,        \* caller -> the locals of its call
    res,      \* caller -> [path, err]: what its call returned
    left,     \* caller -> the calls of Fetch it has yet to make
    g,        \* caller -> what its call has done so far (history)
    prev      \* caller -> its previous call, as completed (history)

vars == <<fs, dirs, perm, blocked, origin, pc, id, l, res, left, g, prev>>
env == <<perm, blocked, origin>>

NoLocals == [which |-> "", chk |-> 0, expected |-> <<>>, h |-> <<>>, roff |-> 0,
             body |-> <<>>, cut |-> -1, woff |-> 0]
NoRes == [path |-> NoPath, err |-> "none"]
NoHistory == [gets |-> <<>>, wrote |-> {}, read |-> {}, c1 |-> "none", fe |-> "none",
              c2 |-> "none", vok |-> FALSE, interf |-> FALSE, overlap |-> FALSE,
              settled |-> FALSE, fs0 |-> <<>>]
NoPrev == [id |-> NoId, res |-> NoRes, c1 |-> "none", fe |-> "none", c2 |-> "none"]

(***************************************************************************)
(* The branches of Fetch, fetch and fetchURL.  Each operator gives the     *)
(* statement control goes to next.                                         *)
(***************************************************************************)
\* faulty variant: when os.MkdirAll fails the bundle is fetched all the same
AfterMkdirAllFetching(err) == IF err # "nil" THEN "fetch" ELSE "stat"

\* faulty variant: the error of os.MkdirAll is dropped
AfterMkdirAllIgnoring(err) == "stat"

\* Fetch, after os.MkdirAll
AfterMkdirAll(err) == IF err # "nil" THEN "return_mkdir_err" ELSE "stat"

\* faulty variant: check runs whether or not the bundle file exists
AfterStatChecking(statOk) == "check1"

\* faulty variant: a bundle file that exists is returned without a check
AfterStatTrusting(statOk) == IF statOk THEN "return_path" ELSE "fetch"

\* Fetch, after os.Stat of the bundle file
AfterStat(statOk) == IF statOk THEN "check1" ELSE "fetch"

\* faulty variant: the error of the first check is returned
AfterCheck1Returning(err) == IF err = "nil" THEN "return_path" ELSE "return_check_err"

\* faulty variant: the error of the first check is dropped
AfterCheck1Ignoring(err) == "return_path"

\* faulty variant: the bundle is fetched whatever the first check says
AfterCheck1Refetching(err) == "fetch"

\* Fetch, after the check of a bundle file that was already there
AfterCheck1(err) == IF err = "nil" THEN "return_path" ELSE "fetch"

\* faulty variant: the error of the digest file's download is dropped
AfterFetchURLIgnoring(which, err) ==
    IF which = "hash" THEN "get_bundle"
    ELSE IF err # "nil" THEN "fetch_err" ELSE "fetch_ok"

\* fetch, after fetchURL of the digest file ("hash") or of the bundle ("bundle")
AfterFetchURL(which, err) ==
    IF err # "nil" THEN "fetch_err"
    ELSE IF which = "hash" THEN "get_bundle" ELSE "fetch_ok"

\* faulty variant: fetch is tried again when it fails
AfterFetchRetrying(err) == IF err # "nil" THEN "fetch" ELSE "check2"

\* faulty variant: the error of fetch is dropped
AfterFetchIgnoring(err) == "check2"

\* Fetch, after fetch
AfterFetch(err) == IF err # "nil" THEN "return_fetch_err" ELSE "check2"

\* faulty variant: the bundle is fetched again when the second check fails
AfterCheck2Retrying(err) == IF err = "nil" THEN "return_path" ELSE "fetch"

\* faulty variant: the error of the second check is dropped
AfterCheck2Ignoring(err) == "return_path"

\* Fetch, after the check that follows fetch
AfterCheck2(err) == IF err = "nil" THEN "return_path" ELSE "return_check_err"

\* the program counter of a target statement
PcOf(target) ==
    CASE target = "stat" -> "stat"
      [] target \in {"check1", "check2"} -> "check_hash"
      [] target \in {"fetch", "get_bundle"} -> "get"
      [] OTHER -> "done"

\* the locals on entry to a target statement
LocalsAt(target) ==
    CASE target = "check1" -> [NoLocals EXCEPT !.chk = 1]
      [] target = "check2" -> [NoLocals EXCEPT !.chk = 2]
      [] target = "fetch" -> [NoLocals EXCEPT !.which = "hash"]
      [] target = "get_bundle" -> [NoLocals EXCEPT !.which = "bundle"]
      [] OTHER -> NoLocals

\* what Fetch returns at a return statement
Returned(target, i) ==
    CASE target = "return_path" -> [path |-> BundleFilePath(i), err |-> "nil"]
      [] target = "return_mkdir_err" ->
            [path |-> NoPath, err |-> "error making bundle directory"]
      [] target = "return_fetch_err" -> [path |-> NoPath, err |-> "error fetching bundle"]
      [] target = "return_check_err" -> [path |-> NoPath, err |-> "error checking bundle"]
      [] OTHER -> NoRes

Goto(c, i, target) ==
    /\ pc' = [pc EXCEPT ![c] = PcOf(target)]
    /\ l' = [l EXCEPT ![c] = LocalsAt(target)]
    /\ res' = [res EXCEPT ![c] = Returned(target, i)]

(***************************************************************************)
(* History: what a call has done.  A write to a path is recorded for the   *)
(* writer, and flags every other call in progress on the same path.  A     *)
(* stat, an open for reading or a read of a path is recorded for the       *)
(* reader.                                                                 *)
(***************************************************************************)
FilesOf(i) == {BundleFilePath(i), BundleHashPath(i)}

MarkRead(h, p) == [h EXCEPT !.read = @ \cup {p}]

\* a call for identity i has downloaded both files
Fetched(i) ==
    \E c \in Callers : \/ (id[c] = i /\ g[c].fe = "nil")
                        \/ (prev[c].id = i /\ prev[c].fe = "nil")

\* the call of c, if it is for identity i, will write no more: it is over, or
\* it is in the check that follows its downloads
PastDownloads(c, i) ==
    (pc[c] # "idle" /\ id[c] = i) => (pc[c] = "done" \/ l[c].chk = 2)

\* caller c begins a call for identity i: the calls in progress for the same
\* identity, and the new call beside them, are flagged as overlapping; the
\* new call is flagged as begun after the downloads when a call has
\* downloaded the files and every other call for i will write no more
MarkBegin(c, i) ==
    [d \in Callers |->
        IF d = c
        THEN [NoHistory EXCEPT !.fs0 = fs,
                               !.overlap = \E e \in Callers \ {c} : pc[e] # "idle" /\ id[e] = i,
                               !.settled = /\ Fetched(i)
                                           /\ \A e \in Callers \ {c} : PastDownloads(e, i)]
        ELSE IF pc[d] # "idle" /\ id[d] = i THEN [g[d] EXCEPT !.overlap = TRUE]
        ELSE g[d]]

MarkWrite(c, p) ==
    [d \in Callers |->
        IF d = c THEN [g[c] EXCEPT !.wrote = @ \cup {p}, !.vok = FALSE]
        ELSE IF pc[d] # "idle" /\ p \in FilesOf(id[d]) THEN [g[d] EXCEPT !.interf = TRUE]
        ELSE g[d]]

(***************************************************************************)
(* Fetch: entry, os.MkdirAll, os.Stat.                                     *)
(***************************************************************************)
\* os.MkdirAll(bundleBasePath): nil when the directory exists; otherwise the
\* missing directories are made parent first, and the first that cannot be
\* made is the error
MkdirAll(i) ==
    LET vp == VersionPath(i)
        bp == BundleBasePath(i)
        d1 == IF bp \notin dirs /\ vp \notin blocked THEN dirs \cup {vp} ELSE dirs
        d2 == IF vp \in d1 /\ bp \notin blocked THEN d1 \cup {bp} ELSE d1
    IN  [err |-> IF bp \in dirs \/ bp \in d2 THEN "nil" ELSE "mkdir", dirs |-> d2]

Begin(c, i) ==
    /\ pc[c] = "idle"
    /\ left[c] > 0
    /\ left' = [left EXCEPT ![c] = @ - 1]
    /\ id' = [id EXCEPT ![c] = i]
    /\ dirs' = MkdirAll(i).dirs
    /\ Goto(c, i, AfterMkdirAll(MkdirAll(i).err))
    /\ g' = MarkBegin(c, i)
    /\ UNCHANGED <<fs, env, prev>>

\* faulty variant: os.Stat never finds the file
StatOkNever(p) == FALSE

\* os.Stat(bundleFilePath) returns no error
StatOk(p) == fs[p].ex

Stat(c) ==
    /\ pc[c] = "stat"
    /\ Goto(c, id[c], AfterStat(StatOk(BundleFilePath(id[c]))))
    /\ g' = [g EXCEPT ![c] = MarkRead(@, BundleFilePath(id[c]))]
    /\ UNCHANGED <<fs, dirs, env, id, left, prev>>

(***************************************************************************)
(* check.                                                                  *)
(***************************************************************************)
\* faulty variant: the digests are compared over the length of the shorter
BytesEqualPrefix(a, b) ==
    SubSeq(a, 1, Min(Len(a), Len(b))) = SubSeq(b, 1, Min(Len(a), Len(b)))

\* faulty variant: only the lengths are compared
BytesEqualLength(a, b) == Len(a) = Len(b)

\* bytes.Equal
BytesEqual(a, b) == a = b

\* faulty variant: the file is opened with O_CREATE, a missing file is made
OpenCreating(file) == [ex |-> TRUE, data |-> file.data]

\* what os.Open (O_RDONLY) makes of a file, whether or not it can open it:
\* the file is as it was
Open(file) == file

\* check, at the file p, returns err to Fetch
CheckReturns(c, p, err) ==
    /\ Goto(c, id[c], IF l[c].chk = 1 THEN AfterCheck1(err) ELSE AfterCheck2(err))
    /\ g' = [g EXCEPT ![c] = IF l[c].chk = 1
                              THEN [MarkRead(@, p) EXCEPT !.c1 = err, !.vok = (err = "nil")]
                              ELSE [MarkRead(@, p) EXCEPT !.c2 = err, !.vok = (err = "nil")]]

\* os.Open and io.ReadAll of the digest file, strings.Split, hex.DecodeString
CheckReadHash(c) ==
    /\ pc[c] = "check_hash"
    /\ LET p == BundleHashPath(id[c])
           d == DecodeString(FirstPart(fs[p].data))
           err == IF ~fs[p].ex \/ perm[p] = "w" THEN "error opening"
                  ELSE IF perm[p] = "eio" THEN "error reading"
                  ELSE IF d.err THEN "error decoding digest"
                  ELSE "nil"
       IN  IF err = "nil"
           THEN /\ pc' = [pc EXCEPT ![c] = "check_open"]
                /\ l' = [l EXCEPT ![c].expected = d.bytes]
                /\ g' = [g EXCEPT ![c] = MarkRead(@, p)]
                /\ UNCHANGED res
           ELSE CheckReturns(c, p, err)
    /\ fs' = [fs EXCEPT ![BundleHashPath(id[c])] = Open(@)]
    /\ UNCHANGED <<dirs, env, id, left, prev>>

\* os.Open of the bundle file
CheckOpenBundle(c) ==
    /\ pc[c] = "check_open"
    /\ LET p == BundleFilePath(id[c])
       IN  IF ~fs[p].ex \/ perm[p] = "w"
           THEN CheckReturns(c, p, "error opening")
           ELSE /\ pc' = [pc EXCEPT ![c] = "check_sum"]
                /\ l' = [l EXCEPT ![c].h = <<>>, ![c].roff = 0]
                /\ g' = [g EXCEPT ![c] = MarkRead(@, p)]
                /\ UNCHANGED res
    /\ fs' = [fs EXCEPT ![BundleFilePath(id[c])] = Open(@)]
    /\ UNCHANGED <<dirs, env, id, left, prev>>

\* io.Copy(h256, f): one read of the bundle file into the hash, or, at the
\* end of the file, h256.Sum and bytes.Equal
CheckSum(c) ==
    /\ pc[c] = "check_sum"
    /\ LET p == BundleFilePath(id[c])
           chunk == Slice(fs[p].data, l[c].roff, ChunkSize)
       IN  IF perm[p] = "eio" THEN CheckReturns(c, p, "error computing digest")
           ELSE IF chunk # <<>>
           THEN /\ l' = [l EXCEPT ![c].h = @ \o chunk, ![c].roff = @ + Len(chunk)]
                /\ UNCHANGED <<pc, res, g>>
           ELSE CheckReturns(c, p, IF BytesEqual(Sha256(l[c].h), l[c].expected)
                                   THEN "nil" ELSE "hash mismatch")
    /\ UNCHANGED <<fs, dirs, env, id, left, prev>>

(***************************************************************************)
(* fetch and fetchURL.                                                     *)
(***************************************************************************)
\* fetchURL returns err to fetch, which goes on to the bundle's download or
\* returns to Fetch
FetchURLReturns(c, err, hist) ==
    LET t == AfterFetchURL(l[c].which, err)
    IN  IF t = "get_bundle"
        THEN Goto(c, id[c], t) /\ g' = [g EXCEPT ![c] = hist]
        ELSE Goto(c, id[c], AfterFetch(err)) /\ g' = [g EXCEPT ![c] = [hist EXCEPT !.fe = err]]

\* faulty variant: the status of the response is not tested
GetErrorAnyStatus(r) == IF r.kind = "neterr" THEN "error fetching" ELSE "nil"

\* the error of http.Get, then of the status test, for the answer r
GetError(r) ==
    IF r.kind = "neterr" THEN "error fetching"
    ELSE IF r.kind = "status" THEN "http response status"
    ELSE "nil"

\* http.Get and the status test
FetchGet(c) ==
    /\ pc[c] = "get"
    /\ LET url == TargetUrl(id[c], l[c].which)
           r == origin[url]
           err == GetError(r)
           hist == [g[c] EXCEPT !.gets = Append(@, url)]
       IN  IF err = "nil"
           THEN /\ pc' = [pc EXCEPT ![c] = "open"]
                /\ l' = [l EXCEPT ![c].body = r.body, ![c].cut = r.cut]
                /\ g' = [g EXCEPT ![c] = hist]
                /\ UNCHANGED res
           ELSE FetchURLReturns(c, err, hist)
    /\ UNCHANGED <<fs, dirs, env, id, left, prev>>

\* faulty variant: the old file is unlinked, the writes go to a file without
\* a name
OpenFileUnlinking(file) == [ex |-> FALSE, data |-> <<>>]

\* faulty variant: the file is opened without O_TRUNC
OpenFileKeeping(file) == [ex |-> TRUE, data |-> file.data]

\* what os.OpenFile(path, O_WRONLY|O_CREATE|O_TRUNC, 0644) makes of a file it
\* can open: the file exists and is empty
OpenFile(file) == [ex |-> TRUE, data |-> <<>>]

\* os.OpenFile(path, O_WRONLY|O_CREATE|O_TRUNC): the file exists and is empty
FetchOpen(c) ==
    /\ pc[c] = "open"
    /\ LET p == TargetPath(id[c], l[c].which)
       IN  IF perm[p] = "r"
           THEN FetchURLReturns(c, "error opening for writing", g[c]) /\ UNCHANGED fs
           ELSE /\ fs' = [fs EXCEPT ![p] = OpenFile(@)]
                /\ pc' = [pc EXCEPT ![c] = "copy"]
                /\ l' = [l EXCEPT ![c].woff = 0]
                /\ g' = MarkWrite(c, p)
                /\ UNCHANGED res
    /\ UNCHANGED <<dirs, env, id, left, prev>>

\* the bytes of the body that reach the file: all of it, or the first cut
\* bytes when the transfer breaks or the write fails
Arrives(body, cut) == IF cut >= 0 THEN SubSeq(body, 1, Min(cut, Len(body))) ELSE body

\* io.Copy(f, resp.Body): one write at the descriptor's offset, or, when no
\* more bytes arrive, the end of the copy (an error when the transfer broke)
FetchCopy(c) ==
    /\ pc[c] = "copy"
    /\ LET p == TargetPath(id[c], l[c].which)
           chunk == Slice(Arrives(l[c].body, l[c].cut), l[c].woff, ChunkSize)
       IN  IF chunk # <<>>
           THEN /\ fs' = [fs EXCEPT ![p].data = WriteAt(@, l[c].woff, chunk)]
                /\ l' = [l EXCEPT ![c].woff = @ + Len(chunk)]
                /\ g' = MarkWrite(c, p)
                /\ UNCHANGED <<pc, res>>
           ELSE /\ FetchURLReturns(c, IF l[c].cut >= 0 THEN "error writing" ELSE "nil", g[c])
                /\ UNCHANGED fs
    /\ UNCHANGED <<dirs, env, id, left, prev>>

\* Fetch has returned; the caller takes the result
Return(c) ==
    /\ pc[c] = "done"
    /\ pc' = [pc EXCEPT ![c] = "idle"]
    /\ prev' = [prev EXCEPT ![c] = [id |-> id[c], res |-> res[c], c1 |-> g[c].c1,
                                    fe |-> g[c].fe, c2 |-> g[c].c2]]
    /\ id' = [id EXCEPT ![c] = NoId]
    /\ res' = [res EXCEPT ![c] = NoRes]
    /\ g' = [g EXCEPT ![c] = NoHistory]
    /\ UNCHANGED <<fs, dirs, env, l, left>>

Step(c) ==
    \/ \E i \in Ids : Begin(c, i)
    \/ Stat(c)
    \/ CheckReadHash(c)
    \/ CheckOpenBundle(c)
    \/ CheckSum(c)
    \/ FetchGet(c)
    \/ FetchOpen(c)
    \/ FetchCopy(c)
    \/ Return(c)

(***************************************************************************)
(* Initial states: the cache and the origin a behaviour starts from.       *)
(***************************************************************************)
Absent == [ex |-> FALSE, data |-> <<>>]
File(data) == [ex |-> TRUE, data |-> data]

Ok(body) == [kind |-> "ok", body |-> body, cut |-> -1]
Broken(body, k) == [kind |-> "ok", body |-> body, cut |-> k]
NotFound == [kind |-> "status", body |-> <<>>, cut |-> -1]
NetErr == [kind |-> "neterr", body |-> <<>>, cut |-> -1]

\* a bundle, and the bundle with its second byte changed
GoodCar == <<1, 0, 1>>
OtherCar == <<1, 1, 1>>

\* digest files: the bare hex digest, "<hex> x" and "<hex>\n"
SumOf(car) == EncodeToString(Sha256(car))
SumLine(car) == SumOf(car) \o <<32, 120>>
SumNl(car) == SumOf(car) \o <<10>>

\* what the cache holds for one identity: [car, sum, pcar, psum]
Cached(car, sum, pcar, psum) == [car |-> car, sum |-> sum, pcar |-> pcar, psum |-> psum]

CacheContents ==
    {Cached(car, sum, "rw", "rw") :
        car \in {Absent, File(GoodCar), File(OtherCar)},
        sum \in {Absent, File(SumOf(GoodCar)), File(SumLine(GoodCar)), File(SumNl(GoodCar)),
                 File(SumOf(OtherCar)), File(<<122, 122>>), File(<<>>)}}

CachePerms ==
    {Cached(car, sum, pp[1], pp[2]) :
        car \in {Absent, File(GoodCar)},
        sum \in {Absent, File(SumLine(GoodCar))},
        pp \in {<<"w", "rw">>, <<"rw", "w">>, <<"eio", "rw">>, <<"rw", "eio">>,
                <<"r", "rw">>, <<"rw", "r">>}}

\* what the origin answers for one identity: [sum, car]
Served(sum, car) == [sum |-> sum, car |-> car]

ValidOrigin == Served(Ok(SumLine(GoodCar)), Ok(GoodCar))

Origins ==
    {Served(sum, car) :
        sum \in {Ok(SumLine(GoodCar)), Ok(SumNl(GoodCar)), Ok(SumOf(OtherCar)),
                 NotFound, NetErr, Broken(SumLine(GoodCar), 2)},
        car \in {Ok(GoodCar), NotFound, NetErr, Broken(GoodCar, 2)}}

InitCallers ==
    /\ pc = [c \in Callers |-> "idle"]
    /\ id = [c \in Callers |-> NoId]
    /\ l = [c \in Callers |-> NoLocals]
    /\ res = [c \in Callers |-> NoRes]
    /\ g = [c \in Callers |-> NoHistory]
    /\ prev = [c \in Callers |-> NoPrev]

\* the cache and the origin built from one choice per identity; a directory
\* exists when a file in it does, BasePath always (NewBundleFetcher made it),
\* and a directory that is blocked does not exist
InitWorld(cache, served, blk) ==
    /\ fs = [p \in Paths |->
                LET i == CHOOSE j \in Ids : p \in FilesOf(j)
                IN  IF p = BundleFilePath(i) THEN cache[i].car ELSE cache[i].sum]
    /\ perm = [p \in Paths |->
                LET i == CHOOSE j \in Ids : p \in FilesOf(j)
                IN  IF p = BundleFilePath(i) THEN cache[i].pcar ELSE cache[i].psum]
    /\ origin = [u \in Urls |->
                LET i == CHOOSE j \in Ids : u \in {BundleFileUrl(j), BundleHashUrl(j)}
                IN  IF u = BundleFileUrl(i) THEN served[i].car ELSE served[i].sum]
    /\ dirs = {BasePath} \cup
              UNION {{VersionPath(i), BundleBasePath(i)} :
                        i \in {j \in Ids : cache[j].car.ex \/ cache[j].sum.ex}}
    /\ blocked = blk
    /\ blocked \cap dirs = {}

(***************************************************************************)
(* Sequential use: one caller, any cache and origin for mainnet.           *)
(***************************************************************************)
InitSeq ==
    /\ InitCallers
    /\ left = [c \in Callers |-> IF c = "c1" THEN MaxCalls ELSE 0]
    /\ \E cm \in CacheContents \cup CachePerms, om \in Origins,
          cc \in {Cached(Absent, Absent, "rw", "rw"),
                  Cached(File(GoodCar), File(SumLine(GoodCar)), "rw", "rw")},
          blk \in {{}, {BundleBasePath(Mainnet)}} :
            InitWorld([i \in Ids |-> IF i = Mainnet THEN cm ELSE cc],
                      [i \in Ids |-> IF i = Mainnet THEN om ELSE ValidOrigin], blk)

NextSeq == Step("c1")

SpecSeq == InitSeq /\ [][NextSeq]_vars

(***************************************************************************)
(* Inputs of check: every bundle up to MaxLen bytes beside the digest file *)
(* of every such bundle, bare and followed by " x"; beside the hex of that *)
(* digest with a byte more and with its last byte missing; beside the      *)
(* empty digest file and the digest file " x".                             *)
(***************************************************************************)
AllCars == UNION {[1..n -> {0, 1}] : n \in 0..MaxLen}

SumLong(car) == EncodeToString(Sha256(car) \o <<0>>)
SumShort(car) == EncodeToString(SubSeq(Sha256(car), 1, DigestSize - 1))

CheckSums ==
    UNION {{SumOf(y), SumLine(y), SumLong(y), SumShort(y)} : y \in AllCars}
        \cup {<<>>, <<32, 120>>}

InitCheck ==
    /\ InitCallers
    /\ left = [c \in Callers |-> IF c = "c1" THEN MaxCalls ELSE 0]
    /\ \E x \in AllCars, sum \in CheckSums :
            InitWorld([i \in Ids |-> IF i = Mainnet
                                     THEN Cached(File(x), File(sum), "rw", "rw")
                                     ELSE Cached(Absent, Absent, "rw", "rw")],
                      [i \in Ids |-> ValidOrigin], {})

SpecCheck == InitCheck /\ [][NextSeq]_vars

(***************************************************************************)
(* Concurrent use: two callers whose calls overlap in every way.           *)
(***************************************************************************)
Init ==
    /\ InitCallers
    /\ left = [c \in Callers |-> IF c = "c1" THEN 2 ELSE 1]
    /\ \E cm \in {Cached(Absent, Absent, "rw", "rw"),
                  Cached(File(GoodCar), File(SumLine(GoodCar)), "rw", "rw"),
                  Cached(File(OtherCar), File(SumLine(GoodCar)), "rw", "rw")},
          om \in {ValidOrigin, Served(Ok(SumLine(GoodCar)), NotFound)} :
            InitWorld([i \in Ids |-> IF i = Mainnet THEN cm
                                     ELSE Cached(Absent, Absent, "rw", "rw")],
                      [i \in Ids |-> IF i = Mainnet THEN om ELSE ValidOrigin], {})

Next == \E c \in Callers : Step(c)

Spec == Init /\ [][Next]_vars

(***************************************************************************)
(* What check returns when it runs alone on the files f: the whole of      *)
(* check in one evaluation.                                                *)
(***************************************************************************)
CheckOf(f, i) ==
    LET hp == BundleHashPath(i)
        bp == BundleFilePath(i)
        d == DecodeString(FirstPart(f[hp].data))
    IN  IF ~f[hp].ex \/ perm[hp] = "w" THEN "error opening"
        ELSE IF perm[hp] = "eio" THEN "error reading"
        ELSE IF d.err THEN "error decoding digest"
        ELSE IF ~f[bp].ex \/ perm[bp] = "w" THEN "error opening"
        ELSE IF perm[bp] = "eio" THEN "error computing digest"
        ELSE IF BytesEqual(Sha256(f[bp].data), d.bytes) THEN "nil"
        ELSE "hash mismatch"

Returning(c) == pc[c] = "done"
ReturnsPath(c) == Returning(c) /\ res[c].path # NoPath

(***************************************************************************)
(* C1.  Every call of Fetch that returns a path ran check successfully on  *)
(* the files of its identity during that call, after the last write the    *)
(* call made to either file: g[c].vok is set by a check that returns nil   *)
(* and cleared by every write of the call.  A bundle file that merely      *)
(* exists never yields a path.                                             *)
(***************************************************************************)
C1_PathOnlyAfterCheck ==
    \A c \in Callers :
        ReturnsPath(c) => /\ g[c].vok
                          /\ res[c].path = BundleFilePath(id[c])
                          /\ "nil" \in {g[c].c1, g[c].c2}

\* a call returns a path it verified after downloading both files
C1_Witness ==
    \E c \in Callers : ReturnsPath(c) /\ g[c].vok /\ g[c].wrote = FilesOf(id[c])

(***************************************************************************)
(* C2.  The files of identity i are intact: both exist, and the SHA-256 of *)
(* the bundle file equals the digest the digest file records.              *)
(***************************************************************************)
Intact(i) ==
    /\ fs[BundleFilePath(i)].ex
    /\ fs[BundleHashPath(i)].ex
    /\ ~DecodeString(FirstPart(fs[BundleHashPath(i)].data)).err
    /\ Sha256(fs[BundleFilePath(i)].data)
         = DecodeString(FirstPart(fs[BundleHashPath(i)].data)).bytes

\* C2 as claimed: in every interleaving, when a call returns a path the
\* files of its identity are intact
C2_PathImpliesIntact ==
    \A c \in Callers : ReturnsPath(c) => Intact(id[c])

\* C2 as amended: when a call returns a path, the files of its identity are
\* intact provided no other call wrote the bundle file or the digest file of
\* that identity while the call was in progress
C2_PathImpliesIntactAlone ==
    \A c \in Callers : ReturnsPath(c) /\ ~g[c].interf => Intact(id[c])

\* a call returns a path undisturbed while another call for the same
\* identity is in progress
C2_Witness ==
    \E c, d \in Callers :
        /\ c # d
        /\ ReturnsPath(c) /\ ~g[c].interf
        /\ pc[d] \notin {"idle", "done"} /\ id[d] = id[c]

(***************************************************************************)
(* C3.  Cache hit: when the bundle file exists at the call and the check   *)
(* of the existing files returns nil, Fetch returns the bundle's path at   *)
(* once, having issued no GET and written nothing.                         *)
(***************************************************************************)
C3_CacheHit ==
    \A c \in Callers :
        g[c].c1 = "nil" =>
            /\ Returning(c)
            /\ res[c] = [path |-> BundleFilePath(id[c]), err |-> "nil"]
            /\ g[c].gets = <<>>
            /\ g[c].wrote = {}
            /\ g[c].fe = "none" /\ g[c].c2 = "none"

\* a call finds a bundle that verifies
C3_Witness ==
    \E c \in Callers : Returning(c) /\ g[c].c1 = "nil" /\ g[c].fs0[BundleFilePath(id[c])].ex

(***************************************************************************)
(* C4.  Idempotence: when a call returned a path, the next call for the    *)
(* same identity (nothing else touching the files in between) returns the  *)
(* same path, issues no GET and leaves every file as it was.               *)
(***************************************************************************)
C4_Idempotent ==
    \A c \in Callers :
        Returning(c) /\ prev[c].id = id[c] /\ prev[c].res.path # NoPath =>
            /\ res[c] = prev[c].res
            /\ g[c].gets = <<>>
            /\ fs = g[c].fs0

\* the second of two calls returns, the first having downloaded the bundle
C4_Witness ==
    \E c \in Callers :
        /\ Returning(c) /\ prev[c].id = id[c]
        /\ prev[c].res.path # NoPath /\ prev[c].fe = "nil"

(***************************************************************************)
(* The digest file format as the specification states it: the first        *)
(* whitespace-separated token is the lowercase hex SHA-256 of the bundle.  *)
(***************************************************************************)
IsSpace(c) == c \in {9, 10, 11, 12, 13, 32}

RECURSIVE SkipSpace(_)
SkipSpace(s) == IF s # <<>> /\ IsSpace(Head(s)) THEN SkipSpace(Tail(s)) ELSE s

RECURSIVE UntilSpace(_)
UntilSpace(s) ==
    IF s = <<>> \/ IsSpace(Head(s)) THEN <<>> ELSE <<Head(s)>> \o UntilSpace(Tail(s))

FirstToken(s) == UntilSpace(SkipSpace(s))

DigestFileOf(sum, car) == FirstToken(sum) = EncodeToString(Sha256(car))

\* the origin serves, with status 200 and in full, a bundle and a digest
\* file of that bundle
OriginValid(i) ==
    /\ origin[BundleHashUrl(i)].kind = "ok" /\ origin[BundleHashUrl(i)].cut < 0
    /\ origin[BundleFileUrl(i)].kind = "ok" /\ origin[BundleFileUrl(i)].cut < 0
    /\ DigestFileOf(origin[BundleHashUrl(i)].body, origin[BundleFileUrl(i)].body)

\* both files of the identity can be read and written
LocalHealthy(i) == \A p \in FilesOf(i) : perm[p] = "rw"

\* the call began with a bundle file that does not match its digest file
MismatchAtStart(c) ==
    /\ g[c].fs0[BundleFilePath(id[c])].ex
    /\ ~(/\ g[c].fs0[BundleHashPath(id[c])].ex
         /\ DigestFileOf(g[c].fs0[BundleHashPath(id[c])].data,
                         g[c].fs0[BundleFilePath(id[c])].data))

Healed(c) ==
    /\ res[c] = [path |-> BundleFilePath(id[c]), err |-> "nil"]
    /\ g[c].gets = <<BundleHashUrl(id[c]), BundleFileUrl(id[c])>>
    /\ g[c].c2 = "nil"

(***************************************************************************)
(* C5.  Self-healing: a call that begins with a bundle file that does not  *)
(* match its digest file, against an origin that serves a valid bundle and *)
(* digest file with status 200, downloads both files, verifies them and    *)
(* returns the path.                                                       *)
(***************************************************************************)
C5_SelfHealing ==
    \A c \in Callers :
        Returning(c) /\ MismatchAtStart(c) /\ OriginValid(id[c]) /\ LocalHealthy(id[c])
            => Healed(c)

\* C5 holds of every origin whose digest file has a space, or nothing, after
\* the hex digest: the claim fails only through the split on " " (C12)
C5_SelfHealingSpaceSeparated ==
    \A c \in Callers :
        /\ Returning(c) /\ MismatchAtStart(c) /\ OriginValid(id[c]) /\ LocalHealthy(id[c])
        /\ FirstPart(origin[BundleHashUrl(id[c])].body)
             = FirstToken(origin[BundleHashUrl(id[c])].body)
        => Healed(c)

C5_Witness ==
    \E c \in Callers :
        /\ Returning(c) /\ MismatchAtStart(c) /\ OriginValid(id[c]) /\ Healed(c)
        /\ g[c].c1 = "hash mismatch"

(***************************************************************************)
(* C6.  When the origin answers the GET of the digest file with a status   *)
(* other than 200, Fetch returns "error fetching bundle" and no path, the  *)
(* GET of the bundle is never issued, and the bundle file is not created,  *)
(* truncated or written by the call.                                       *)
(***************************************************************************)
C6_DigestStatusStopsFetch ==
    \A c \in Callers :
        /\ g[c].gets # <<>>
        /\ origin[BundleHashUrl(id[c])].kind = "status"
        => /\ Returning(c)
           /\ res[c] = [path |-> NoPath, err |-> "error fetching bundle"]
           /\ g[c].gets = <<BundleHashUrl(id[c])>>
           /\ g[c].wrote = {}
           /\ fs = g[c].fs0

\* the digest file's GET is refused while a bundle file lies in the cache
C6_Witness ==
    \E c \in Callers :
        /\ Returning(c) /\ g[c].gets # <<>>
        /\ origin[BundleHashUrl(id[c])].kind = "status"
        /\ fs[BundleFilePath(id[c])].ex

(***************************************************************************)
(* C7.  When fetch fails, for whatever reason and on either download,      *)
(* Fetch returns at once an error and the empty path; the second check is  *)
(* not run.                                                                *)
(***************************************************************************)
C7_FetchErrorReturned ==
    \A c \in Callers :
        g[c].fe \notin {"none", "nil"} =>
            /\ Returning(c)
            /\ res[c] = [path |-> NoPath, err |-> "error fetching bundle"]
            /\ g[c].c2 = "none"
            /\ ~g[c].vok

\* the bundle's download fails on the local file after the digest file's
\* download succeeded
C7_Witness ==
    \E c \in Callers :
        /\ Returning(c) /\ g[c].fe = "error opening for writing"
        /\ Len(g[c].gets) = 2

(***************************************************************************)
(* C8.  When fetch succeeds and the check after it fails, Fetch returns    *)
(* "error checking bundle" and no path, both files are left as the         *)
(* downloads wrote them, and the next call for the identity does not find  *)
(* a bundle that verifies.                                                 *)
(***************************************************************************)
AsDownloaded(i) ==
    /\ fs[BundleHashPath(i)] = File(origin[BundleHashUrl(i)].body)
    /\ fs[BundleFilePath(i)] = File(origin[BundleFileUrl(i)].body)

C8_CheckErrorKeepsFiles ==
    \A c \in Callers :
        /\ g[c].fe = "nil" /\ g[c].c2 \notin {"none", "nil"}
             => /\ Returning(c)
                /\ res[c] = [path |-> NoPath, err |-> "error checking bundle"]
                /\ AsDownloaded(id[c])
        /\ prev[c].id = id[c] /\ prev[c].res.err = "error checking bundle"
             => /\ g[c].c1 # "nil"
                /\ g[c].c1 = "none" => AsDownloaded(id[c])

\* the call after one that ended in "error checking bundle" finds the files
\* and rejects them
C8_Witness ==
    \E c \in Callers :
        /\ prev[c].id = id[c] /\ prev[c].res.err = "error checking bundle"
        /\ prev[c].c2 = "hash mismatch"
        /\ g[c].c1 = "hash mismatch"

(***************************************************************************)
(* C9.  Hash enforcement: beside a digest file that holds the hex SHA-256  *)
(* of C, check returns nil for the bundle C and "hash mismatch" for every  *)
(* bundle that differs from C in exactly one byte.                         *)
(***************************************************************************)
OneByteChanged(x, y) ==
    /\ Len(x) = Len(y)
    /\ Cardinality({k \in 1..Len(x) : x[k] # y[k]}) = 1

C9_HashEnforcement ==
    \A c \in Callers :
        g[c].c1 # "none" =>
            LET car == g[c].fs0[BundleFilePath(id[c])].data
                sum == g[c].fs0[BundleHashPath(id[c])].data
            IN  \A C \in AllCars :
                    sum \in {SumOf(C), SumLine(C)} =>
                        /\ car = C => g[c].c1 = "nil"
                        /\ OneByteChanged(car, C) => g[c].c1 = "hash mismatch"

\* check has rejected a bundle of MaxLen bytes that differs in its last byte
\* from the bundle the digest file names
C9_Witness ==
    \E c \in Callers :
        /\ g[c].c1 = "hash mismatch"
        /\ LET car == g[c].fs0[BundleFilePath(id[c])].data
               sum == g[c].fs0[BundleHashPath(id[c])].data
           IN  /\ Len(car) = MaxLen
               /\ \E C \in AllCars : /\ sum = SumOf(C)
                                     /\ OneByteChanged(car, C)
                                     /\ car[MaxLen] # C[MaxLen]

(***************************************************************************)
(* C10.  A call that returns "error fetching bundle".                      *)
(***************************************************************************)
FetchFailed(c) == Returning(c) /\ res[c].err = "error fetching bundle"

\* C10 as claimed: files that do not verify before a call that returns
\* "error fetching bundle" do not verify after it
C10_FetchErrorNeverValidates ==
    \A c \in Callers :
        FetchFailed(c) /\ CheckOf(g[c].fs0, id[c]) # "nil" => CheckOf(fs, id[c]) # "nil"

\* C10 as amended: when the call returns "error fetching bundle" without
\* having written the digest file, it has written nothing, and files that did
\* not verify before the call do not verify after it
C10_FetchErrorBeforeWriteKeepsFiles ==
    \A c \in Callers :
        FetchFailed(c) /\ BundleHashPath(id[c]) \notin g[c].wrote =>
            /\ fs = g[c].fs0
            /\ CheckOf(g[c].fs0, id[c]) # "nil" => CheckOf(fs, id[c]) # "nil"

\* the digest file's GET fails while a bundle file that does not verify lies
\* in the cache
C10_Witness ==
    \E c \in Callers :
        /\ FetchFailed(c) /\ g[c].wrote = {}
        /\ g[c].c1 \notin {"none", "nil"}
        /\ fs[BundleFilePath(id[c])].ex

(***************************************************************************)
(* C11.  A file-system error of the first check: a file check needs exists *)
(* at the call but cannot be opened for reading, or a read of it fails.    *)
(* The claim: such an error is returned by the call, and no GET follows    *)
(* it.                                                                     *)
(***************************************************************************)
Unreadable(f, p) == f[p].ex /\ perm[p] \in {"w", "eio"}

\* the first check of the call ran into a file it could not open or read
FsErrorInCheck1(c) ==
    /\ g[c].c1 \in {"error opening", "error reading", "error computing digest"}
    /\ \/ Unreadable(g[c].fs0, BundleHashPath(id[c]))
       \/ /\ g[c].c1 # "error reading"
          /\ g[c].fs0[BundleHashPath(id[c])].ex
          /\ Unreadable(g[c].fs0, BundleFilePath(id[c]))

C11_FilesystemErrorSurfaced ==
    \A c \in Callers :
        FsErrorInCheck1(c) =>
            /\ Returning(c)
            /\ res[c].path = NoPath /\ res[c].err # "nil"
            /\ g[c].gets = <<>>
            /\ g[c].wrote = {}

\* the bundle file could not be read by the first check, and the call has
\* gone on to download the digest file
C11_Refetched ==
    \E c \in Callers :
        /\ FsErrorInCheck1(c)
        /\ Unreadable(g[c].fs0, BundleFilePath(id[c]))
        /\ g[c].gets # <<>>

(***************************************************************************)
(* C12.  The digest file holds the hex SHA-256 of the bundle followed by a *)
(* whitespace character (space, tab, newline, ...) and any text.  The      *)
(* claim: check accepts every such digest file.                            *)
(***************************************************************************)
HexThenSpace(sum, car) ==
    LET n == Len(EncodeToString(Sha256(car)))
    IN  /\ Len(sum) > n
        /\ SubSeq(sum, 1, n) = EncodeToString(Sha256(car))
        /\ IsSpace(sum[n + 1])

\* the call began with a readable bundle file and a readable digest file of
\* the form "<hex of the bundle><whitespace>..."
DigestLineAtStart(c) ==
    /\ g[c].fs0[BundleFilePath(id[c])].ex
    /\ g[c].fs0[BundleHashPath(id[c])].ex
    /\ LocalHealthy(id[c])
    /\ HexThenSpace(g[c].fs0[BundleHashPath(id[c])].data, g[c].fs0[BundleFilePath(id[c])].data)

C12_FirstWhitespaceToken ==
    \A c \in Callers :
        g[c].c1 # "none" /\ DigestLineAtStart(c) => g[c].c1 = "nil"

\* check has rejected the digest file "<hex of the bundle>\n"
C12_NewlineRejected ==
    \E c \in Callers :
        /\ g[c].c1 = "error decoding digest"
        /\ DigestLineAtStart(c)
        /\ g[c].fs0[BundleHashPath(id[c])].data = SumNl(g[c].fs0[BundleFilePath(id[c])].data)

(***************************************************************************)
(* C13.  Two calls in progress whose identities differ in the network.     *)
(***************************************************************************)
InProgress(c) == pc[c] # "idle"

\* the files the call has stat'ed, opened, read or written
Touched(c) == g[c].read \cup g[c].wrote

\* C13 as claimed: the two calls work in different directories, and neither
\* touches a file of the other
C13_DirectoryIsolation ==
    \A c, d \in Callers :
        InProgress(c) /\ InProgress(d) /\ id[c].netw # id[d].netw =>
            /\ BundleBasePath(id[c]) # BundleBasePath(id[d])
            /\ Touched(c) \cap FilesOf(id[d]) = {}

\* C13 as amended: the two calls work on files at different paths (in the
\* same directory when version and release agree), each touches only the
\* bundle file and the digest file of its own identity, and neither touches
\* a file of the other
C13_FileIsolation ==
    \A c, d \in Callers :
        InProgress(c) /\ InProgress(d) /\ id[c].netw # id[d].netw =>
            /\ FilesOf(id[c]) \cap FilesOf(id[d]) = {}
            /\ Touched(c) \subseteq FilesOf(id[c])
            /\ Touched(c) \cap FilesOf(id[d]) = {}

\* a mainnet call and a calibnet call, in the same directory, have each
\* read and written both of their files
C13_Witness ==
    \E c, d \in Callers :
        /\ id[c] = Mainnet /\ id[d] = Calibnet
        /\ BundleBasePath(id[c]) = BundleBasePath(id[d])
        /\ g[c].wrote = FilesOf(Mainnet) /\ g[c].read = FilesOf(Mainnet)
        /\ g[d].wrote = FilesOf(Calibnet) /\ g[d].read = FilesOf(Calibnet)

(***************************************************************************)
(* What Fetch does when it runs alone on the files f: the whole of         *)
(* fetchURL, fetch and Fetch in one evaluation each, giving the result and *)
(* the files left behind.                                                  *)
(***************************************************************************)
FetchURLOf(f, i, which) ==
    LET r == origin[TargetUrl(i, which)]
        p == TargetPath(i, which)
    IN  IF r.kind = "neterr" THEN [err |-> "error fetching", fs |-> f]
        ELSE IF r.kind = "status" THEN [err |-> "http response status", fs |-> f]
        ELSE IF perm[p] = "r" THEN [err |-> "error opening for writing", fs |-> f]
        ELSE [err |-> IF r.cut >= 0 THEN "error writing" ELSE "nil",
              fs |-> [f EXCEPT ![p] = File(Arrives(r.body, r.cut))]]

FetchFilesOf(f, i) ==
    LET h == FetchURLOf(f, i, "hash")
    IN  IF AfterFetchURL("hash", h.err) = "get_bundle"
        THEN FetchURLOf(h.fs, i, "bundle")
        ELSE h

FetchOf(f, i) ==
    LET t0 == AfterMkdirAll(MkdirAll(i).err)
        t1 == IF t0 = "stat" THEN AfterStat(f[BundleFilePath(i)].ex) ELSE t0
        t2 == IF t1 = "check1" THEN AfterCheck1(CheckOf(f, i)) ELSE t1
        fetched == FetchFilesOf(f, i)
        t3 == IF t2 = "fetch" THEN AfterFetch(fetched.err) ELSE t2
        f3 == IF t2 = "fetch" THEN fetched.fs ELSE f
        t4 == IF t3 = "check2" THEN AfterCheck2(CheckOf(f3, i)) ELSE t3
    IN  [res |-> Returned(t4, i), fs |-> f3]

(***************************************************************************)
(* C14.  A call that overlapped with no call for its own identity (calls   *)
(* for other identities may have run beside it in any interleaving) has    *)
(* touched only the bundle file and the digest file of its identity, and   *)
(* returns what the call run alone from the same files returns, leaving    *)
(* its two files as the call run alone leaves them.                        *)
(***************************************************************************)
C14_DifferentIdentitiesIndependent ==
    \A c \in Callers :
        Returning(c) /\ ~g[c].overlap =>
            /\ Touched(c) \subseteq FilesOf(id[c])
            /\ ~g[c].interf
            /\ res[c] = FetchOf(g[c].fs0, id[c]).res
            /\ \A p \in FilesOf(id[c]) : fs[p] = FetchOf(g[c].fs0, id[c]).fs[p]

\* a mainnet call returns after downloading both files while a calibnet call
\* is in the middle of its own downloads, each having written after the
\* other began
C14_Witness ==
    \E c, d \in Callers :
        /\ Returning(c) /\ ~g[c].overlap /\ id[c] = Mainnet
        /\ g[c].wrote = FilesOf(Mainnet)
        /\ pc[d] = "copy" /\ id[d] = Calibnet /\ l[d].which = "bundle"
        /\ g[d].fs0[BundleHashPath(Mainnet)] # fs[BundleHashPath(Mainnet)]
        /\ g[c].fs0[BundleHashPath(Calibnet)] # fs[BundleHashPath(Calibnet)]

(***************************************************************************)
(* C15.  Overlapping calls for one identity against a valid origin, the    *)
(* local files readable and writable.  A call is in the middle of its      *)
(* downloads from its first write until fetch returns.  Whenever a call    *)
(* has downloaded both files and no call is in the middle of its           *)
(* downloads, the files on disk are intact; and a call that begins when    *)
(* every other call for the identity is past its downloads finds the       *)
(* bundle, verifies it, issues no GET and writes nothing.                  *)
(***************************************************************************)
MidDownload(c) == pc[c] # "idle" /\ g[c].wrote # {} /\ g[c].fe = "none"

C16_AtMostTwoGets ==
    \A c \in Callers :
        pc[c] # "idle" =>
            g[c].gets \in {<<>>, <<BundleHashUrl(id[c])>>,
                           <<BundleHashUrl(id[c]), BundleFileUrl(id[c])>>}

\* a call whose first check failed, whose two downloads succeeded and whose
\* second check failed returns after two GETs
C16_Witness ==
    \E c \in Callers :
        /\ Returning(c) /\ res[c].err = "error checking bundle"
        /\ g[c].c1 \notin {"none", "nil"}
        /\ Len(g[c].gets) = 2

(***************************************************************************)
(* C17.  Path layout, written out: under the cache root R the bundle of    *)
(* (version, release, network) is                                          *)
(*     R/builtin-actors/v<version>/<release>/builtin-actors-<network>.car  *)
(* and its digest file the .sha256 beside it.  Every path a call returns   *)
(* is that path, whether the bundle was found or downloaded, and the only  *)
(* other file the call touches is the digest file beside it.               *)
(***************************************************************************)
LayoutDir(i) ==
    "/tmp/cache" \o "/builtin-actors/v" \o ToString(i.version) \o "/" \o i.release

LayoutCar(i) == LayoutDir(i) \o "/builtin-actors-" \o i.netw \o ".car"
LayoutSha(i) == LayoutDir(i) \o "/builtin-actors-" \o i.netw \o ".sha256"

C17_PathLayout ==
    \A c \in Callers :
        ReturnsPath(c) =>
            /\ res[c].path = LayoutCar(id[c])
            /\ id[c] = Mainnet =>
                 res[c].path = "/tmp/cache/builtin-actors/v8/v8.0.0/builtin-actors-mainnet.car"
            /\ fs[LayoutCar(id[c])].ex /\ fs[LayoutSha(id[c])].ex
            /\ LayoutSha(id[c]) \in g[c].read
            /\ Touched(c) = {LayoutCar(id[c]), LayoutSha(id[c])}

\* the path has been returned for a bundle found in the cache and, by the
\* call before, for the bundle downloaded
C17_Witness ==
    \E c \in Callers :
        /\ ReturnsPath(c) /\ id[c] = Mainnet
        /\ g[c].gets = <<>>
        /\ prev[c].id = Mainnet /\ prev[c].fe = "nil" /\ prev[c].res.path = res[c].path

(***************************************************************************)
(* C18.  The order of fetch.  The bundle's download (its GET, the opening  *)
(* of the bundle file, its writes) starts only after the digest file's     *)
(* download has ended without error, the digest file then holding the      *)
(* whole body the origin served.  When the digest file's download fails,   *)
(* whatever the cause, fetch fails, the bundle's GET is not issued and the *)
(* bundle file is left as it was.                                          *)
(***************************************************************************)
InBundleDownload(c) ==
    \/ BundleFileUrl(id[c]) \in {g[c].gets[k] : k \in 1..Len(g[c].gets)}
    \/ BundleFilePath(id[c]) \in g[c].wrote
    \/ pc[c] \in {"get", "open", "copy"} /\ l[c].which = "bundle"

DigestDownloadFailed(c) ==
    /\ g[c].fe \notin {"none", "nil"}
    /\ g[c].gets = <<BundleHashUrl(id[c])>>

C18_DigestBeforeBundle ==
    \A c \in Callers :
        /\ pc[c] # "idle" /\ InBundleDownload(c) =>
              /\ g[c].gets[1] = BundleHashUrl(id[c])
              /\ origin[BundleHashUrl(id[c])].kind = "ok"
              /\ origin[BundleHashUrl(id[c])].cut < 0
              /\ BundleHashPath(id[c]) \in g[c].wrote
              /\ fs[BundleHashPath(id[c])] = File(origin[BundleHashUrl(id[c])].body)
        /\ pc[c] # "idle" /\ DigestDownloadFailed(c) =>
              /\ Returning(c) /\ res[c].err = "error fetching bundle"
              /\ BundleFilePath(id[c]) \notin g[c].wrote
              /\ fs[BundleFilePath(id[c])] = g[c].fs0[BundleFilePath(id[c])]

\* the digest file's transfer broke after the file was truncated and partly
\* written, beside a bundle file that was there before the call
C18_Witness ==
    \E c \in Callers :
        /\ pc[c] # "idle" /\ DigestDownloadFailed(c)
        /\ g[c].fe = "error writing"
        /\ g[c].wrote = {BundleHashPath(id[c])}
        /\ fs[BundleFilePath(id[c])].ex

(***************************************************************************)
(* C19.  The bundle file exists and the first check fails, whatever the    *)
(* cause.  The call does not return on that failure: it goes on to fetch,  *)
(* and what it returns, the digest file it leaves and the bundle file it   *)
(* writes are those of the call made with the bundle file absent; a bundle *)
(* file the call does not come to write stays as it was.                   *)
(***************************************************************************)
Check1Failed(c) == pc[c] # "idle" /\ g[c].c1 \notin {"none", "nil"}

WithoutBundle(f, i) == [f EXCEPT ![BundleFilePath(i)] = Absent]

C19_CheckFailureRefetches ==
    \A c \in Callers :
        Check1Failed(c) =>
            /\ g[c].fs0[BundleFilePath(id[c])].ex
            /\ pc[c] # "done" => /\ pc[c] \in {"get", "open", "copy"} \/ l[c].chk = 2
                                 /\ res[c] = NoRes
            /\ Returning(c) =>
                 /\ g[c].gets # <<>>
                 /\ g[c].fe # "none"
                 /\ res[c] = FetchOf(WithoutBundle(g[c].fs0, id[c]), id[c]).res
                 /\ \A p \in g[c].wrote \cup {BundleHashPath(id[c])} :
                        fs[p] = FetchOf(WithoutBundle(g[c].fs0, id[c]), id[c]).fs[p]
                 /\ \A p \in FilesOf(id[c]) \ g[c].wrote : fs[p] = g[c].fs0[p]

\* calls have returned after a first check that failed in each of the ways
\* check can fail
C19_Witness ==
    \E c \in Callers :
        /\ Returning(c) /\ Check1Failed(c)
        /\ g[c].c1 = "error computing digest"
        /\ prev[c].c1 \in {"error opening", "error reading", "error decoding digest",
                           "hash mismatch"}

(***************************************************************************)
(* C20.  The three outcomes of a call that has passed MkdirAll.  "error    *)
(* checking bundle" is returned only when fetch succeeded in this call and *)
(* the check after it failed, and carries that check's failure, never the  *)
(* failure of the first check.  A path is returned only when nothing but   *)
(* the first check failed in the call.  Every failure of MkdirAll, of      *)
(* fetch and of the second check is the error the call returns.            *)
(***************************************************************************)
MkdirFailed(c) == pc[c] # "idle" /\ MkdirAll(id[c]).err # "nil"

C20_ThreeWayOutcome ==
    \A c \in Callers :
        Returning(c) =>
            /\ res[c].err = "error checking bundle" <=>
                 g[c].fe = "nil" /\ g[c].c2 \notin {"none", "nil"}
            /\ res[c].err = "error fetching bundle" <=> g[c].fe \notin {"none", "nil"}
            /\ res[c].err = "error making bundle directory" <=> MkdirFailed(c)
            /\ res[c].err = "nil" <=> res[c].path # NoPath
            /\ res[c].path # NoPath =>
                 /\ ~MkdirFailed(c)
                 /\ g[c].fe \in {"none", "nil"}
                 /\ g[c].c2 \in {"none", "nil"}
                 /\ "nil" \in {g[c].c1, g[c].c2}
            /\ g[c].c1 \notin {"none", "nil"} /\ g[c].c2 = "none" =>
                 res[c].err = "error fetching bundle"

\* a call that found no digest file beside the bundle, downloaded both files
\* and found them not to match returns "error checking bundle"
C20_Witness ==
    \E c \in Callers :
        /\ Returning(c) /\ res[c].err = "error checking bundle"
        /\ g[c].c1 = "error opening" /\ g[c].fe = "nil" /\ g[c].c2 = "hash mismatch"
        /\ g[c].fs0[BundleFilePath(id[c])].ex

(***************************************************************************)
(* C21.  Cold miss: the bundle file does not exist when the call is made,  *)
(* a digest file may.  No check runs before fetch and the digest file is   *)
(* not read before it is downloaded; when both downloads succeed they are  *)
(* exactly the GET of the digest file and then the GET of the bundle; and  *)
(* the call returns the path exactly when the check after them passes.     *)
(***************************************************************************)
ColdMiss(c) ==
    /\ pc[c] # "idle"
    /\ ~MkdirFailed(c)
    /\ ~g[c].fs0[BundleFilePath(id[c])].ex

C21_ColdMiss ==
    \A c \in Callers :
        ColdMiss(c) =>
            /\ g[c].c1 = "none"
            /\ g[c].fe = "none" => BundleHashPath(id[c]) \notin g[c].read
            /\ g[c].fe = "nil" =>
                 /\ g[c].gets = <<BundleHashUrl(id[c]), BundleFileUrl(id[c])>>
                 /\ g[c].wrote = FilesOf(id[c])
            /\ g[c].c2 # "none" => g[c].fe = "nil"
            /\ Returning(c) =>
                 /\ g[c].gets # <<>>
                 /\ res[c].path # NoPath <=> g[c].c2 = "nil"
                 /\ res[c].path # NoPath => res[c].path = BundleFilePath(id[c])

\* a call made with a digest file but no bundle file returns the path after
\* two downloads
C21_Witness ==
    \E c \in Callers :
        /\ Returning(c) /\ ColdMiss(c)
        /\ g[c].fs0[BundleHashPath(id[c])].ex
        /\ res[c].path = BundleFilePath(id[c])
        /\ Len(g[c].gets) = 2 /\ g[c].c2 = "nil"

(***************************************************************************)
(* C22.  The bytes the digest file's first part decodes to are not the     *)
(* whole SHA-256 of the bundle: they are a proper prefix of it (no bytes   *)
(* at all, from an empty digest file or an empty first part, included) or  *)
(* they go on beyond it.  check then returns "hash mismatch".              *)
(***************************************************************************)
ProperPrefix(a, b) == Len(a) < Len(b) /\ SubSeq(b, 1, Len(a)) = a

C22_FullLengthEquality ==
    \A c \in Callers :
        g[c].c1 # "none" =>
            LET car == g[c].fs0[BundleFilePath(id[c])].data
                d == DecodeString(FirstPart(g[c].fs0[BundleHashPath(id[c])].data))
            IN  /\ ~d.err
                /\ ProperPrefix(d.bytes, Sha256(car)) \/ ProperPrefix(Sha256(car), d.bytes)
                => g[c].c1 = "hash mismatch"

\* check has rejected, beside a bundle of MaxLen bytes, the digest of that
\* bundle with a byte more
C22_Witness ==
    \E c \in Callers :
        /\ g[c].c1 = "hash mismatch"
        /\ Len(g[c].fs0[BundleFilePath(id[c])].data) = MaxLen
        /\ g[c].fs0[BundleHashPath(id[c])].data
             = SumLong(g[c].fs0[BundleFilePath(id[c])].data)

(***************************************************************************)
(* C23.  A download that ends without error leaves in the target file the  *)
(* body the origin served, whole and nothing else, whatever the file held  *)
(* before; after a fetch that returns nil both files are the origin's.     *)
(***************************************************************************)
\* the download of the file p by the call of c has ended without error
Downloaded(c, p) ==
    /\ pc[c] # "idle" /\ p \in g[c].wrote
    /\ \/ g[c].fe = "nil"
       \/ /\ p = BundleHashPath(id[c])
          /\ \/ BundleFilePath(id[c]) \in g[c].wrote
             \/ Len(g[c].gets) = 2
             \/ l[c].which = "bundle"

C23_DownloadReplacesFile ==
    \A c \in Callers :
        /\ Downloaded(c, BundleHashPath(id[c])) =>
              fs[BundleHashPath(id[c])] = File(origin[BundleHashUrl(id[c])].body)
        /\ Downloaded(c, BundleFilePath(id[c])) =>
              fs[BundleFilePath(id[c])] = File(origin[BundleFileUrl(id[c])].body)
        /\ pc[c] # "idle" /\ g[c].fe = "nil" => AsDownloaded(id[c])

\* a download has replaced a digest file that was longer than the body
\* served
C23_Witness ==
    \E c \in Callers :
        /\ pc[c] # "idle" /\ g[c].fe = "nil"
        /\ g[c].fs0[BundleHashPath(id[c])].ex
        /\ Len(g[c].fs0[BundleHashPath(id[c])].data) > Len(fs[BundleHashPath(id[c])].data)
        /\ fs[BundleHashPath(id[c])].data # <<>>

(***************************************************************************)
(* C24.  No step of any call removes a file: a bundle file or digest file  *)
(* that exists goes on existing, and a step changes the content of a file  *)
(* only when it is a step of a download by a call for the identity the     *)
(* file belongs to.                                                        *)
(***************************************************************************)
Downloading(c, p) ==
    /\ pc[c] \in {"open", "copy"}
    /\ p = TargetPath(id[c], l[c].which)
    /\ p \in FilesOf(id[c])

C24_NeverRemoves ==
    [][\A p \in Paths :
          /\ fs[p].ex => fs'[p].ex
          /\ fs'[p] # fs[p] => \E c \in Callers : Downloading(c, p) /\ p \in g'[c].wrote]_vars

\* a call that began with both files in place, truncated the digest file and
\* then failed has returned its error, both files still there
C24_Witness ==
    \E c \in Callers :
        /\ Returning(c) /\ res[c].err = "error fetching bundle"
        /\ g[c].wrote # {}
        /\ \A p \in FilesOf(id[c]) : g[c].fs0[p].ex /\ fs[p].ex
        /\ \E p \in FilesOf(id[c]) : fs[p] # g[c].fs0[p]

(***************************************************************************)
(* C25.  os.MkdirAll of the bundle's directory fails.  Fetch returns the   *)
(* empty path and "error making bundle directory" at once: no os.Stat, no  *)
(* check, no GET, and no file written.                                     *)
(***************************************************************************)
C25_MkdirErrorReturned ==
    \A c \in Callers :
        MkdirFailed(c) =>
            /\ Returning(c)
            /\ res[c] = [path |-> NoPath, err |-> "error making bundle directory"]
            /\ g[c].read = {} /\ g[c].wrote = {}
            /\ g[c].gets = <<>>
            /\ g[c].c1 = "none" /\ g[c].fe = "none" /\ g[c].c2 = "none"
            /\ fs = g[c].fs0
            /\ BundleBasePath(id[c]) \notin dirs

\* the directory cannot be made while the origin serves a valid bundle; the
\* call before it failed the same way
C25_Witness ==
    \E c \in Callers :
        /\ MkdirFailed(c) /\ Returning(c)
        /\ OriginValid(id[c])
        /\ prev[c].res.err = "error making bundle directory"

(***************************************************************************)
(* C26.  The GET of a download is answered with a status other than 200,   *)
(* or fails before an answer arrives.  The download's target file is not   *)
(* created, truncated or written: it is as it was when the call began.     *)
(***************************************************************************)
\* the call has issued the GET of the file "hash" or "bundle", and the
\* origin refuses that GET
GetRefused(c, which) ==
    /\ pc[c] # "idle"
    /\ TargetUrl(id[c], which) \in {g[c].gets[k] : k \in 1..Len(g[c].gets)}
    /\ origin[TargetUrl(id[c], which)].kind \in {"status", "neterr"}

C26_FailedGetLeavesFile ==
    \A c \in Callers : \A which \in {"hash", "bundle"} :
        GetRefused(c, which) =>
            /\ TargetPath(id[c], which) \notin g[c].wrote
            /\ fs[TargetPath(id[c], which)] = g[c].fs0[TargetPath(id[c], which)]
            /\ g[c].fe \in {"error fetching", "http response status"}
            /\ Returning(c) /\ res[c].err = "error fetching bundle"

\* the bundle's GET is refused after the digest file was downloaded: the
\* bundle file that was there keeps its content
C26_Witness ==
    \E c \in Callers :
        /\ GetRefused(c, "bundle")
        /\ g[c].wrote = {BundleHashPath(id[c])}
        /\ g[c].fs0[BundleFilePath(id[c])].ex
        /\ g[c].fs0[BundleFilePath(id[c])].data # <<>>
        /\ fs[BundleFilePath(id[c])] = g[c].fs0[BundleFilePath(id[c])]

(***************************************************************************)
(* C27.  check only reads: no step of check, whether check goes on, fails  *)
(* or passes, changes a file or makes one.  A call that returns on the     *)
(* first check (a cache hit) therefore ends with every file as it was when *)
(* the call began.                                                         *)
(***************************************************************************)
InCheck(c) == pc[c] \in {"check_hash", "check_open", "check_sum"}

C27_CheckReadOnly ==
    [][\A c \in Callers :
          /\ InCheck(c) /\ <<pc[c], l[c]>> # <<pc'[c], l'[c]>> => fs' = fs /\ dirs' = dirs
          /\ InCheck(c) /\ pc'[c] = "done" /\ g'[c].c1 = "nil" =>
                /\ fs' = g'[c].fs0
                /\ g'[c].wrote = {}]_vars

\* a first check has failed on a digest file that is missing, and the files
\* are as they were when the call began
C27_Witness ==
    \E c \in Callers :
        /\ pc[c] = "get" /\ g[c].gets = <<>>
        /\ g[c].c1 = "error opening"
        /\ BundleFilePath(id[c]) \in g[c].read /\ BundleHashPath(id[c]) \in g[c].read
        /\ ~fs[BundleHashPath(id[c])].ex
        /\ fs = g[c].fs0

(***************************************************************************)
(* C28.  Termination.  The statements of Fetch in the order of the code:   *)
(* os.Stat, the first check, the digest file's download, the bundle's      *)
(* download, the second check, the return.  Every step of a call moves to  *)
(* a later statement, or stays at a read or a write whose offset grows:    *)
(* nothing is run a second time.  Under the assumption that a call in      *)
(* progress goes on taking steps, every call returns, and it returns       *)
(* either a path or an error.                                              *)
(***************************************************************************)
Position(c) ==
    LET base == CASE pc[c] = "idle" -> 0
                  [] pc[c] = "stat" -> 1
                  [] InCheck(c) /\ l[c].chk = 1 -> 2
                  [] pc[c] \in {"get", "open", "copy"} /\ l[c].which = "hash" -> 5
                  [] pc[c] \in {"get", "open", "copy"} /\ l[c].which = "bundle" -> 8
                  [] InCheck(c) /\ l[c].chk = 2 -> 11
                  [] OTHER -> 14
        step == CASE pc[c] \in {"check_open", "open"} -> 1
                  [] pc[c] \in {"check_sum", "copy"} -> 2
                  [] OTHER -> 0
    IN  base + step

Offset(c) == l[c].roff + l[c].woff

\* the steps of a call in progress
Runs(c) ==
    \/ Stat(c) \/ CheckReadHash(c) \/ CheckOpenBundle(c) \/ CheckSum(c)
    \/ FetchGet(c) \/ FetchOpen(c) \/ FetchCopy(c)

SpecLive == InitSeq /\ [][NextSeq]_vars /\ WF_vars(Runs("c1"))

ReturnedPathOrError(c) ==
    /\ pc[c] = "done"
    /\ \/ res[c].path = BundleFilePath(id[c]) /\ res[c].err = "nil"
       \/ res[c].path = NoPath /\ res[c].err \notin {"nil", "none"}

C28_Terminates ==
    /\ [][\A c \in Callers :
             pc[c] \notin {"idle", "done"} /\ <<pc[c], l[c]>> # <<pc'[c], l'[c]>> =>
                \/ Position(c)' > Position(c)
                \/ Position(c)' = Position(c) /\ Offset(c)' > Offset(c)]_vars
    /\ \A c \in Callers : (pc[c] # "idle") ~> ReturnedPathOrError(c)

\* a call has returned after running everything: the first check, both
\* downloads and the second check
C28_Witness ==
    \E c \in Callers :
        /\ ReturnedPathOrError(c)
        /\ g[c].c1 \notin {"none", "nil"} /\ g[c].fe = "nil" /\ g[c].c2 # "none"
        /\ Position(c) = 14

=============================================================================
